---- MODULE Spec2Model ----
(***************************************************************************)
(* The virtual memory file system (VMFS) of memflow-daemon:                *)
(* memflow-daemon/src/commands/fuse/filesystem.rs.                         *)
(*                                                                         *)
(* One mounted VirtualMemoryFileSystem instance, the part of the daemon    *)
(* state it touches (connections, the registry of mounts, the state lock), *)
(* the four FUSE handlers, the refresh of the tree and the cleanup thread  *)
(* spawned by Drop.                                                        *)
(*                                                                         *)
(* A u64 is kept at its full width as four 16-bit limbs, least significant *)
(* first.  Text is a sequence of one-character strings.                    *)
(***************************************************************************)
EXTENDS Integers, Sequences, FiniteSets, TLC

\* ------------------------------------------------------------------ bounds

\* The number of processes the introspected machine runs, all at once at most.
MaxProcs == 2
\* The number of process-scope modules in modules_processes: new() registers
\* one, process_info.
NumModules == 1
\* Longest payload a content provider returns.
MaxPayload == 2
\* The clock stops here (seconds since the mount).
MaxTime == 12
\* How many times the cleanup of this mount id is spawned.
NumCleanups == 3
\* The references the connection holds when the instance is mounted.
MountedRefcount == 1

\* ------------------------------------------------------- 64-bit integers

Limb == 2 ^ 16

U64Zero == <<0, 0, 0, 0>>
U64One == <<1, 0, 0, 0>>

\* `pi.pid as u64`: an i32 widened to 64 bits with sign extension.
I32AsU64(p) ==
    LET ext == IF p < 0 THEN Limb - 1 ELSE 0
    IN  <<p % Limb, (p \div Limb) % Limb, ext, ext>>

\* x + 1 on u64 (wrapping).
U64Add1(x) ==
    IF x[1] < Limb - 1 THEN <<x[1] + 1, x[2], x[3], x[4]>>
    ELSE IF x[2] < Limb - 1 THEN <<0, x[2] + 1, x[3], x[4]>>
    ELSE IF x[3] < Limb - 1 THEN <<0, 0, x[3] + 1, x[4]>>
    ELSE IF x[4] < Limb - 1 THEN <<0, 0, 0, x[4] + 1>>
    ELSE U64Zero

\* x - 1 on u64, for x >= 1.
U64Sub1(x) ==
    IF x[1] > 0 THEN <<x[1] - 1, x[2], x[3], x[4]>>
    ELSE IF x[2] > 0 THEN <<Limb - 1, x[2] - 1, x[3], x[4]>>
    ELSE IF x[3] > 0 THEN <<Limb - 1, Limb - 1, x[3] - 1, x[4]>>
    ELSE <<Limb - 1, Limb - 1, Limb - 1, x[4] - 1>>

\* --------------------------------------------------------------- INode
\* bitfield! { pub struct INode(u64); pid: 31..0; mid: 63..32 }

\* The getters return the field as a u64.
pid(inode) == <<inode[1], inode[2], 0, 0>>
mid(inode) == <<inode[3], inode[4], 0, 0>>

\* Mutant of set_pid: the value is stored as the whole word, INode(value).
set_pid_whole(inode, value) == value

\* The setters keep the low 32 bits of the value and leave the other field.
set_pid(inode, value) == <<value[1], value[2], inode[3], inode[4]>>
set_mid(inode, value) == <<inode[1], inode[2], value[1], value[2]>>

\* ------------------------------------------------------------------ text

Digits == <<"0", "1", "2", "3", "4", "5", "6", "7", "8", "9">>

RECURSIVE DecNat(_)
DecNat(n) ==
    IF n < 10 THEN <<Digits[n + 1]>>
    ELSE DecNat(n \div 10) \o <<Digits[(n % 10) + 1]>>

\* Display of an i32, as format!("{}", pid) prints it.
DisplayI32(p) == IF p < 0 THEN <<"-">> \o DecNat(0 - p) ELSE DecNat(p)

\* name.replace(".", "_")
ReplaceDots(s) == [i \in 1..Len(s) |-> IF s[i] = "." THEN "_" ELSE s[i]]

\* A byte of an OsStr that is no valid UTF-8, and U+FFFD.
InvalidByte == "\\xFF"
ReplacementChar == "\\uFFFD"

\* OsStr::to_string_lossy
to_string_lossy(name) ==
    [i \in 1..Len(name) |-> IF name[i] = InvalidByte THEN ReplacementChar ELSE name[i]]

\* ------------------------------------------------------------ entry model

VirtualFolder(inode, name) ==
    [kind |-> "Folder", inode |-> inode, name |-> name, children |-> <<>>]

VirtualFile(inode, name, ctx) ==
    [kind |-> "File", inode |-> inode, name |-> name, ctx |-> ctx]

\* HashMap::insert: a later insert under the same key replaces the entry.
Insert(fs, key, entry) ==
    [k \in (DOMAIN fs) \cup {key} |-> IF k = key THEN entry ELSE fs[k]]

EmptyMap == [k \in {} |-> 0]

\* ------------------------------------------------------ program constants

\* Default file TTL, Duration::from_secs(1).
TTL == 1
\* update_file_system rebuilds after Duration::from_secs(10).
RefreshSecs == 10
\* The size getattr reports for a file.
GetattrFileSize == 13

\* 0o755 and 0o644
Octal(a, b, c) == a * 64 + b * 8 + c

ENOENT == "ENOENT"

\* ------------------------------------------------------------ the inputs

\* The connection this instance is mounted on, another one, and the mount ids.
conn_id == <<"c", "1">>
OtherConn == <<"c", "2">>
id == "fs1"
OtherMount == "fs2"

\* The processes of the introspected machine: Win32ProcessInfo {pid: i32, name}.
Process(i) ==
    CASE i = 1 -> [pid |-> 0, name |-> <<"I", "d", "l", "e">>]
      [] i = 2 -> [pid |-> 10, name |-> <<"a", ".", "e", "x", "e">>]
      [] OTHER -> [pid |-> 0 - i, name |-> <<"b", ReplacementChar>>]

ProcPool == {Process(i) : i \in 1..MaxProcs}

RECURSIVE DistinctSeqs(_, _)
\* The sequences of at most n pairwise different elements of S.
DistinctSeqs(S, n) ==
    IF n = 0 THEN {<<>>}
    ELSE LET shorter == DistinctSeqs(S, n - 1)
         IN  shorter \cup
             {Append(s, x) : <<s, x>> \in
                 {sx \in shorter \X S : \A i \in 1..Len(sx[1]) : sx[1][i].pid # sx[2].pid}}

\* What kernel.process_info_list() returns: Err, or Ok with the processes
\* (their pids differ).
ListErr == [ok |-> FALSE]
ListOk(list) == [ok |-> TRUE, list |-> list]
Listings == {ListOk(l) : l \in DistinctSeqs(ProcPool, MaxProcs)} \cup {ListErr}

\* ----------------------------------------------------------------- state

VARIABLES
    connections,        \* state.connections: conn id -> [refcount]
    file_systems,       \* state.file_systems: the registered mount ids
    lock,               \* holder of the daemon state lock, or "free"
    process_info_list,  \* what the kernel of conn_id lists now
    payload_len,        \* length of what a content provider returns now
    now,                \* the monotonic clock, in seconds since the mount
    uid, gid,           \* VirtualMemoryFileSystem.uid, .gid
    last_refresh,       \* VirtualMemoryFileSystem.last_refresh
    file_system,        \* VirtualMemoryFileSystem.file_system
    modules_processes,  \* VirtualMemoryFileSystem.modules_processes
    fs_state,           \* "mounted", "panicked" (a handler panicked) or "dropped"
    reply,              \* what the last handler call sent to FUSE
    cleanup,            \* cleanup[t]: position of the t-th cleanup thread
    codec_inode         \* an INode under construction (let mut inode = INode(0))

vars ==
    <<connections, file_systems, lock, process_info_list, payload_len, now, uid, gid,
      last_refresh, file_system, modules_processes, fs_state, reply, cleanup,
      codec_inode>>

\* ---------------------------------------------------------- module registry

\* The file a process-scope module contributes; its providers read the
\* process named by ctx when they are called.
ModuleFileName(module) == <<"m">> \o DecNat(module)

module_entry(module, inode, ctx) == VirtualFile(inode, ModuleFileName(module), ctx)

\* A module whose entry() fails.  entry() returns a VirtualEntry, no Result:
\* the one way it has to fail is to panic.
FailingModule == 0
entry_panics(module, ctx) == module = FailingModule

\* (file.contents)() and (file.content_length)() at the time of the call.
contents(file) == [i \in 1..payload_len |-> i]
content_length(file) == Len(contents(file))

\* ------------------------------------------------------------- tree builder

RECURSIVE ModuleLoop(_, _, _, _, _, _)
\* for module in self.modules_processes.iter(), from the j-th module on.
ModuleLoop(j, modules, inode, fs, children, ctx) ==
    IF j > Len(modules) THEN [fs |-> fs, children |-> children]
    ELSE LET next == set_mid(inode, U64Add1(mid(inode)))
             fse == module_entry(modules[j], next, ctx)
         IN  ModuleLoop(j + 1, modules, next, Insert(fs, next, fse),
                        Append(children, next), ctx)

create_process_folder(pi, fs, modules) ==
    LET inode == set_pid(U64Zero, I32AsU64(pi.pid))
        prc == VirtualFolder(inode, DisplayI32(pi.pid) \o <<"_">> \o ReplaceDots(pi.name))
        ctx == [conn_id |-> conn_id, pid |-> pi.pid]
        done == ModuleLoop(1, modules, inode, fs, prc.children, ctx)
    IN  [inode |-> prc.inode,
         fs |-> Insert(done.fs, prc.inode, [prc EXCEPT !.children = done.children])]

RECURSIVE ProcessLoop(_, _, _, _, _)
\* for pi in process_info.iter(), from the i-th process on.
ProcessLoop(i, listing, children, fs, modules) ==
    IF i > Len(listing) THEN [fs |-> fs, children |-> children]
    ELSE LET made == create_process_folder(listing[i], fs, modules)
         IN  ProcessLoop(i + 1, listing, Append(children, made.inode), made.fs, modules)

\* Mutant of create_root_folder: a connection that is gone or a listing that
\* fails ends the build before the root is inserted.
create_root_folder_or_nothing(conns, listing, modules) ==
    LET root == VirtualFolder(U64Zero, conn_id)
    IN  IF conn_id \in DOMAIN conns /\ listing.ok
        THEN LET done == ProcessLoop(1, listing.list, root.children, EmptyMap, modules)
             IN  Insert(done.fs, root.inode, [root EXCEPT !.children = done.children])
        ELSE EmptyMap

create_root_folder(conns, listing, modules) ==
    LET root == VirtualFolder(U64Zero, conn_id)
        done == IF conn_id \in DOMAIN conns /\ listing.ok
                THEN ProcessLoop(1, listing.list, root.children, EmptyMap, modules)
                ELSE [fs |-> EmptyMap, children |-> root.children]
    IN  Insert(done.fs, root.inode, [root EXCEPT !.children = done.children])

\* The build unwinds: module.entry() panics for a listed process, and nothing
\* between the call and the handler catches it.
create_root_folder_panics(conns, listing, modules) ==
    /\ conn_id \in DOMAIN conns
    /\ listing.ok
    /\ \E i \in 1..Len(listing.list), j \in 1..Len(modules) :
          entry_panics(modules[j], [conn_id |-> conn_id, pid |-> listing.list[i].pid])

\* ------------------------------------------------------------ refresh policy

\* Mutant of Stale: the snapshot counts as stale at the TTL already.
StaleAtTtl(elapsed) == elapsed >= RefreshSecs

\* self.last_refresh.elapsed() > Duration::from_secs(10)
Stale(elapsed) == elapsed > RefreshSecs

\* Mutant of Rebuild: the new entries are merged into the old mapping.
RebuildMerging(old, conns, listing, modules) ==
    create_root_folder(conns, listing, modules) @@ old

\* Mutant of Rebuild: the mapping is published half-written, the folders in
\* and the entries of the modules not yet.
RebuildHalfWritten(old, conns, listing, modules) ==
    LET built == create_root_folder(conns, listing, modules)
    IN  [k \in {e \in DOMAIN built : mid(e) = U64Zero} |-> built[k]]

\* What update_file_system makes of the snapshot: rebuilt from scratch, or kept.
Rebuild(old, conns, listing, modules) == create_root_folder(conns, listing, modules)

update_file_system ==
    IF ~Stale(now - last_refresh)
    THEN [file_system |-> file_system, last_refresh |-> last_refresh, panicked |-> FALSE]
    ELSE IF create_root_folder_panics(connections, process_info_list, modules_processes)
    THEN [file_system |-> file_system, last_refresh |-> last_refresh, panicked |-> TRUE]
    ELSE [file_system |-> Rebuild(file_system, connections, process_info_list,
                                  modules_processes),
          last_refresh |-> now, panicked |-> FALSE]

\* create_root_folder takes the daemon state lock: a rebuild waits for it.
Free == <<"free">>
CanRefresh == Stale(now - last_refresh) => lock = Free

\* The handler op, called now, takes the daemon state lock while it runs: the
\* handlers that refresh reach state_lock_sync() in create_root_folder when the
\* snapshot is stale.  A handler has the instance as &mut self from its first
\* statement to its last.
TakesStateLock(op) ==
    op \in {"lookup", "getattr", "readdir"} /\ Stale(now - last_refresh)

\* --------------------------------------------------------------- replies

ReplyError(op, errno) == [op |-> op, kind |-> "error", errno |-> errno]
ReplyEntry(op, attr) == [op |-> op, kind |-> "entry", ttl |-> TTL, attr |-> attr, generation |-> 0]
ReplyAttr(op, attr) == [op |-> op, kind |-> "attr", ttl |-> TTL, attr |-> attr]
ReplyData(op, data) == [op |-> op, kind |-> "data", data |-> data]
ReplyDirectory(op, entries) == [op |-> op, kind |-> "directory", entries |-> entries]
\* No request is being served.
Idle == [op |-> "none", kind |-> "none"]
\* The handler returned and sent nothing.
NoReply(op) == [op |-> op, kind |-> "none"]
\* The handler panicked.
Panic(op) == [op |-> op, kind |-> "panic"]

DirectoryAttr(folder) ==
    [ino |-> U64Add1(folder.inode), size |-> 0, blocks |-> 0, time |-> "UNIX_EPOCH",
     kind |-> "Directory", perm |-> Octal(7, 5, 5), nlink |-> 2,
     uid |-> uid, gid |-> gid, rdev |-> 0, flags |-> 0]

RegularFileAttr(file, size) ==
    [ino |-> U64Add1(file.inode), size |-> size, blocks |-> 1, time |-> "UNIX_EPOCH",
     kind |-> "RegularFile", perm |-> Octal(6, 4, 4), nlink |-> 1,
     uid |-> uid, gid |-> gid, rdev |-> 0, flags |-> 0]

\* ---------------------------------------------------------------- lookup

\* The positions in the child list whose entry has the name looked up.
LookupMatches(fs, folder, name) ==
    {i \in 1..Len(folder.children) :
        /\ folder.children[i] \in DOMAIN fs
        /\ fs[folder.children[i]].name = to_string_lossy(name)}

Min(S) == CHOOSE x \in S : \A y \in S : x <= y

lookup_reply(fs, parent, name) ==
    IF U64Sub1(parent) \notin DOMAIN fs THEN ReplyError("lookup", ENOENT)
    ELSE LET entry == fs[U64Sub1(parent)]
         IN  IF entry.kind = "File" THEN ReplyError("lookup", ENOENT)
             ELSE LET found == LookupMatches(fs, entry, name)
                  IN  IF found = {} THEN NoReply("lookup")
                      ELSE LET child == fs[entry.children[Min(found)]]
                           IN  IF child.kind = "Folder"
                               THEN ReplyEntry("lookup", DirectoryAttr(child))
                               ELSE ReplyEntry("lookup",
                                        RegularFileAttr(child, content_length(child)))

\* --------------------------------------------------------------- getattr

getattr_reply(fs, ino) ==
    IF U64Sub1(ino) \notin DOMAIN fs THEN ReplyError("getattr", ENOENT)
    ELSE LET entry == fs[U64Sub1(ino)]
         IN  IF entry.kind = "Folder"
             THEN ReplyAttr("getattr", DirectoryAttr(entry))
             ELSE ReplyAttr("getattr", RegularFileAttr(entry, GetattrFileSize))

\* ------------------------------------------------------------------ read

\* &contents.as_slice()[offset as usize..]: a negative offset is a huge usize;
\* a start beyond the length panics.
SliceFrom(data, offset) ==
    IF offset < 0 \/ offset > Len(data) THEN Panic("read")
    ELSE ReplyData("read", SubSeq(data, offset + 1, Len(data)))

read_reply(fs, ino, offset, size) ==
    IF U64Sub1(ino) \notin DOMAIN fs THEN ReplyError("read", ENOENT)
    ELSE LET entry == fs[U64Sub1(ino)]
         IN  IF entry.kind = "Folder" THEN ReplyError("read", ENOENT)
             ELSE SliceFrom(contents(entry), offset)

\* --------------------------------------------------------------- readdir

RECURSIVE ChildEntries(_, _, _)
\* for child in folder.children.iter(), from the i-th child on.
ChildEntries(fs, children, i) ==
    IF i > Len(children) THEN <<>>
    ELSE IF children[i] \notin DOMAIN fs THEN ChildEntries(fs, children, i + 1)
    ELSE LET child == fs[children[i]]
         IN  << [ino |-> U64Add1(child.inode),
                 kind |-> IF child.kind = "Folder" THEN "Directory" ELSE "RegularFile",
                 name |-> child.name] >>
             \o ChildEntries(fs, children, i + 1)

\* Mutant of SkipEnumerated: each entry is added with its own index i.
SkipEnumeratedOwnIndex(entries, offset) ==
    LET skip == IF offset < 0 \/ offset > Len(entries) THEN Len(entries) ELSE offset
    IN  [k \in 1..(Len(entries) - skip) |->
            [ino |-> entries[skip + k].ino, offset |-> skip + k - 1,
             kind |-> entries[skip + k].kind, name |-> entries[skip + k].name]]

\* entries.into_iter().enumerate().skip(offset as usize), each added with i + 1.
SkipEnumerated(entries, offset) ==
    LET skip == IF offset < 0 \/ offset > Len(entries) THEN Len(entries) ELSE offset
    IN  [k \in 1..(Len(entries) - skip) |->
            [ino |-> entries[skip + k].ino, offset |-> skip + k,
             kind |-> entries[skip + k].kind, name |-> entries[skip + k].name]]

readdir_reply(fs, ino, offset) ==
    IF U64Sub1(ino) \notin DOMAIN fs THEN ReplyError("readdir", ENOENT)
    ELSE LET entry == fs[U64Sub1(ino)]
         IN  IF entry.kind = "File" THEN ReplyError("readdir", ENOENT)
             ELSE LET entries ==
                          << [ino |-> U64One, kind |-> "Directory", name |-> <<".">>],
                             [ino |-> U64One, kind |-> "Directory", name |-> <<".", ".">>] >>
                          \o ChildEntries(fs, entry.children, 1)
                  IN  ReplyDirectory("readdir", SkipEnumerated(entries, offset))

\* ------------------------------------------------------- handler inputs

\* Inode numbers FUSE may pass: 1 + an identifier of some snapshot, current or not.
InodeInputs ==
    {U64Add1(set_mid(set_pid(U64Zero, I32AsU64(p.pid)), <<m, 0, 0, 0>>)) :
        p \in ProcPool, m \in 0..NumModules}

EntryNames ==
    {conn_id} \cup {ModuleFileName(m) : m \in 1..NumModules}
    \cup {DisplayI32(p.pid) \o <<"_">> \o ReplaceDots(p.name) : p \in ProcPool}

\* The names looked up: those of entries, the same with an invalid byte where
\* the entry has U+FFFD, one no entry has, and one that is no valid UTF-8.
NameInputs ==
    EntryNames
    \cup {[i \in 1..Len(n) |-> IF n[i] = ReplacementChar THEN InvalidByte ELSE n[i]] :
            n \in EntryNames}
    \cup {<<"x">>, <<"x", InvalidByte>>}

\* Offsets are i64: before the start, inside, at the end and past the end.
ReadOffsets == (0 - 1)..(MaxPayload + 1)
ReaddirOffsets == (0 - 1)..(MaxProcs + 3)
SizeInputs == {1, 4096}

Threads == 1..NumCleanups

\* ------------------------------------------------------------------ Init

\* The state after VirtualMemoryFileSystem::new on a registered connection.
Init ==
    /\ connections = [c \in {conn_id, OtherConn} |-> [refcount |-> MountedRefcount]]
    /\ file_systems = {id, OtherMount}
    /\ lock = Free
    /\ process_info_list \in Listings
    /\ payload_len \in 0..MaxPayload
    /\ now = 0
    /\ uid = 1000
    /\ gid = 100
    /\ last_refresh = 0
    /\ modules_processes = [j \in 1..NumModules |-> j]
    /\ file_system = create_root_folder(connections, process_info_list, modules_processes)
    /\ fs_state = "mounted"
    /\ reply = Idle
    /\ cleanup = [t \in Threads |-> "none"]
    /\ codec_inode = U64Zero

\* ------------------------------------------------------------ environment
\* A handler call and the sending of its reply are one step of the session loop;
\* the environment moves between two requests.

\* Time passes.
Tick(d) ==
    /\ reply = Idle
    /\ now + d <= MaxTime
    /\ now' = now + d
    /\ UNCHANGED <<connections, file_systems, lock, process_info_list, payload_len, uid,
                   gid, last_refresh, file_system, modules_processes, fs_state, reply,
                   cleanup, codec_inode>>

\* A process starts or exits on the introspected machine, or the listing starts
\* or stops failing.
Without(list, i) == SubSeq(list, 1, i - 1) \o SubSeq(list, i + 1, Len(list))

NextListings(listing) ==
    IF ~listing.ok THEN {ListOk(<<>>)}
    ELSE {ListErr}
         \cup {ListOk(Without(listing.list, i)) : i \in 1..Len(listing.list)}
         \cup {ListOk(Append(listing.list, p)) :
                 p \in {q \in ProcPool : /\ Len(listing.list) < MaxProcs
                                         /\ \A i \in 1..Len(listing.list) :
                                               listing.list[i].pid # q.pid}}

ProcessesChange(listing) ==
    /\ reply = Idle
    /\ listing \in NextListings(process_info_list)
    /\ process_info_list' = listing
    /\ UNCHANGED <<connections, file_systems, lock, payload_len, now, uid, gid,
                   last_refresh, file_system, modules_processes, fs_state, reply, cleanup,
                   codec_inode>>

\* The content behind the files changes.
ContentChanges(n) ==
    /\ reply = Idle
    /\ n # payload_len
    /\ payload_len' = n
    /\ UNCHANGED <<connections, file_systems, lock, process_info_list, now, uid, gid,
                   last_refresh, file_system, modules_processes, fs_state, reply, cleanup,
                   codec_inode>>

\* The daemon closes a connection, under the state lock.
Disconnect(c) ==
    /\ reply = Idle
    /\ lock = Free
    /\ c \in DOMAIN connections
    /\ connections' = [k \in (DOMAIN connections) \ {c} |-> connections[k]]
    /\ UNCHANGED <<file_systems, lock, process_info_list, payload_len, now, uid, gid,
                   last_refresh, file_system, modules_processes, fs_state, reply, cleanup,
                   codec_inode>>

\* --------------------------------------------------------------- handlers

HandlerFrame ==
    UNCHANGED <<connections, file_systems, lock, process_info_list, payload_len, now, uid,
                gid, modules_processes, cleanup, codec_inode>>

Lookup(parent, name) ==
    /\ fs_state = "mounted"
    /\ reply = Idle
    /\ CanRefresh
    /\ LET fresh == update_file_system
       IN  /\ file_system' = fresh.file_system
           /\ last_refresh' = fresh.last_refresh
           /\ reply' = IF fresh.panicked THEN Panic("lookup")
                       ELSE lookup_reply(fresh.file_system, parent, name)
    /\ fs_state' = IF reply'.kind = "panic" THEN "panicked" ELSE fs_state
    /\ HandlerFrame

Getattr(ino) ==
    /\ fs_state = "mounted"
    /\ reply = Idle
    /\ CanRefresh
    /\ LET fresh == update_file_system
       IN  /\ file_system' = fresh.file_system
           /\ last_refresh' = fresh.last_refresh
           /\ reply' = IF fresh.panicked THEN Panic("getattr")
                       ELSE getattr_reply(fresh.file_system, ino)
    /\ fs_state' = IF reply'.kind = "panic" THEN "panicked" ELSE fs_state
    /\ HandlerFrame

\* Mutant of Read: read refreshes the snapshot like the other handlers.
ReadRefreshing(ino, offset, size) ==
    /\ fs_state = "mounted"
    /\ reply = Idle
    /\ CanRefresh
    /\ LET fresh == update_file_system
       IN  /\ file_system' = fresh.file_system
           /\ last_refresh' = fresh.last_refresh
           /\ reply' = IF fresh.panicked THEN Panic("read")
                       ELSE read_reply(fresh.file_system, ino, offset, size)
    /\ fs_state' = IF reply'.kind = "panic" THEN "panicked" ELSE fs_state
    /\ HandlerFrame

Read(ino, offset, size) ==
    /\ fs_state = "mounted"
    /\ reply = Idle
    /\ reply' = read_reply(file_system, ino, offset, size)
    /\ fs_state' = IF reply'.kind = "panic" THEN "panicked" ELSE fs_state
    /\ UNCHANGED <<file_system, last_refresh>>
    /\ HandlerFrame

Readdir(ino, offset) ==
    /\ fs_state = "mounted"
    /\ reply = Idle
    /\ CanRefresh
    /\ LET fresh == update_file_system
       IN  /\ file_system' = fresh.file_system
           /\ last_refresh' = fresh.last_refresh
           /\ reply' = IF fresh.panicked THEN Panic("readdir")
                       ELSE readdir_reply(fresh.file_system, ino, offset)
    /\ fs_state' = IF reply'.kind = "panic" THEN "panicked" ELSE fs_state
    /\ HandlerFrame

\* The session loop has sent the reply and waits for the next request.
NextRequest ==
    /\ fs_state = "mounted"
    /\ reply # Idle
    /\ reply' = Idle
    /\ UNCHANGED <<file_system, last_refresh, fs_state>>
    /\ HandlerFrame

\* --------------------------------------------------------------- lifecycle

LifecycleFrame ==
    UNCHANGED <<process_info_list, payload_len, now, uid, gid, last_refresh, file_system,
                modules_processes, reply, codec_inode>>

\* Mutant of Drop: the cleanup starts on the dropping thread, which takes the
\* daemon state lock itself.
DropLocking(t) ==
    /\ cleanup[t] = "none"
    /\ t = 1 => fs_state # "dropped"
    /\ lock = Free
    /\ lock' = <<"cleanup", t>>
    /\ cleanup' = [cleanup EXCEPT ![t] = "locked"]
    /\ fs_state' = IF t = 1 THEN "dropped" ELSE fs_state
    /\ UNCHANGED <<connections, file_systems>>
    /\ LifecycleFrame

\* Drop: spawns the cleanup thread and returns.  Thread 1 is spawned by the drop
\* of this instance, the others by the drop of instances with the same mount id.
Drop(t) ==
    /\ cleanup[t] = "none"
    /\ t = 1 => fs_state # "dropped"
    /\ cleanup' = [cleanup EXCEPT ![t] = "spawned"]
    /\ fs_state' = IF t = 1 THEN "dropped" ELSE fs_state
    /\ UNCHANGED <<connections, file_systems, lock>>
    /\ LifecycleFrame

\* let mut state = state_lock_sync();
CleanupLock(t) ==
    /\ cleanup[t] = "spawned"
    /\ lock = Free
    /\ lock' = <<"cleanup", t>>
    /\ cleanup' = [cleanup EXCEPT ![t] = "locked"]
    /\ UNCHANGED <<connections, file_systems, fs_state>>
    /\ LifecycleFrame

\* Mutant of StillRegistered: the cleanup does not look the mount id up.
AlwaysRegistered(t) == TRUE

\* if state.file_systems.contains_key(&id)
StillRegistered(t) == id \in file_systems

CleanupCheck(t) ==
    /\ cleanup[t] = "locked"
    /\ cleanup' = [cleanup EXCEPT ![t] = IF StillRegistered(t) THEN "found" ELSE "exit"]
    /\ UNCHANGED <<connections, file_systems, lock, fs_state>>
    /\ LifecycleFrame

\* if let Some(conn) = state.connection_mut(&conn_id) { conn.refcount -= 1; }
CleanupRelease(t) ==
    /\ cleanup[t] = "found"
    /\ connections' =
          IF conn_id \in DOMAIN connections
          THEN [connections EXCEPT ![conn_id].refcount = @ - 1]
          ELSE connections
    /\ cleanup' = [cleanup EXCEPT ![t] = "released"]
    /\ UNCHANGED <<file_systems, lock, fs_state>>
    /\ LifecycleFrame

\* Mutant of CleanupRemove: the registry of mounts is cleared.
CleanupRemoveAll(t) ==
    /\ cleanup[t] = "released"
    /\ file_systems' = {}
    /\ cleanup' = [cleanup EXCEPT ![t] = "exit"]
    /\ UNCHANGED <<connections, lock, fs_state>>
    /\ LifecycleFrame

\* state.file_systems.remove(&id);
CleanupRemove(t) ==
    /\ cleanup[t] = "released"
    /\ file_systems' = file_systems \ {id}
    /\ cleanup' = [cleanup EXCEPT ![t] = "exit"]
    /\ UNCHANGED <<connections, lock, fs_state>>
    /\ LifecycleFrame

\* The closure ends: the lock guard is dropped.
CleanupUnlock(t) ==
    /\ cleanup[t] = "exit"
    /\ lock' = Free
    /\ cleanup' = [cleanup EXCEPT ![t] = "done"]
    /\ UNCHANGED <<connections, file_systems, fs_state>>
    /\ LifecycleFrame

\* Another thread of the daemon takes the state lock, and gives it back.
DaemonLock ==
    /\ lock = Free
    /\ lock' = <<"daemon">>
    /\ UNCHANGED <<connections, file_systems, fs_state, cleanup>>
    /\ LifecycleFrame

DaemonUnlock ==
    /\ lock = <<"daemon">>
    /\ lock' = Free
    /\ UNCHANGED <<connections, file_systems, fs_state, cleanup>>
    /\ LifecycleFrame

\* ------------------------------------------------------------------ Next

\* The file system protocol: the session loop serving requests while the
\* introspected machine, the content and the clock change.
Next ==
    \/ \E d \in {1, RefreshSecs} : Tick(d)
    \/ \E listing \in Listings : ProcessesChange(listing)
    \/ \E n \in 0..MaxPayload : ContentChanges(n)
    \/ Disconnect(conn_id)
    \/ \E parent \in InodeInputs, name \in NameInputs : Lookup(parent, name)
    \/ \E ino \in InodeInputs : Getattr(ino)
    \/ \E ino \in InodeInputs, offset \in ReadOffsets, size \in SizeInputs :
          Read(ino, offset, size)
    \/ \E ino \in InodeInputs, offset \in ReaddirOffsets : Readdir(ino, offset)
    \/ NextRequest

Spec == Init /\ [][Next]_vars

\* The lifecycle: drops of instances mounted under this mount id, their cleanup
\* threads and the other users of the daemon state lock.
LifecycleNext ==
    \/ \E t \in Threads : Drop(t)
    \/ \E t \in Threads : CleanupLock(t)
    \/ \E t \in Threads : CleanupCheck(t)
    \/ \E t \in Threads : CleanupRelease(t)
    \/ \E t \in Threads : CleanupRemove(t)
    \/ \E t \in Threads : CleanupUnlock(t)
    \/ \E c \in {conn_id, OtherConn} : Disconnect(c)
    \/ DaemonLock
    \/ DaemonUnlock

LifecycleSpec == Init /\ [][LifecycleNext]_vars

\* The lifecycle under fair scheduling: a thread that can take a step takes it,
\* whoever holds the state lock gives it back, and a thread waiting for the
\* lock gets it when the lock is free again and again.
LifecycleFairness ==
    /\ \A t \in Threads :
          /\ SF_vars(CleanupLock(t))
          /\ WF_vars(CleanupCheck(t))
          /\ WF_vars(CleanupRelease(t))
          /\ WF_vars(CleanupRemove(t))
          /\ WF_vars(CleanupUnlock(t))
    /\ WF_vars(DaemonUnlock)

LifecycleFairSpec == LifecycleSpec /\ LifecycleFairness

\* -------------------------------------------------- registries that may fail

\* The registry new() makes, and the same with a failing module put in at
\* some position.
Registries ==
    LET base == [j \in 1..NumModules |-> j]
    IN  {base} \cup
        {SubSeq(base, 1, k) \o <<FailingModule>> \o SubSeq(base, k + 1, NumModules) :
            k \in 0..NumModules}

\* The state after new() with one of these registries: the build at the mount
\* did not unwind.
RegistryInit ==
    /\ connections = [c \in {conn_id, OtherConn} |-> [refcount |-> MountedRefcount]]
    /\ file_systems = {id, OtherMount}
    /\ lock = Free
    /\ process_info_list \in Listings
    /\ payload_len \in 0..MaxPayload
    /\ now = 0
    /\ uid = 1000
    /\ gid = 100
    /\ last_refresh = 0
    /\ modules_processes \in Registries
    /\ ~create_root_folder_panics(connections, process_info_list, modules_processes)
    /\ file_system = create_root_folder(connections, process_info_list, modules_processes)
    /\ fs_state = "mounted"
    /\ reply = Idle
    /\ cleanup = [t \in Threads |-> "none"]
    /\ codec_inode = U64Zero

RegistrySpec == RegistryInit /\ [][Next]_vars

\* ----------------------------------------------------------------- the codec

\* Limbs at the edges of 16 bits, and the 32-bit values made of them.
LimbInputs == {0, 1, Limb \div 2, Limb - 1}
U32Inputs == {<<a, b, 0, 0>> : a, b \in LimbInputs}

CodecFrame ==
    UNCHANGED <<connections, file_systems, lock, process_info_list, payload_len, now, uid,
                gid, last_refresh, file_system, modules_processes, fs_state, reply,
                cleanup>>

\* inode.set_pid(value)
SetPid(value) ==
    /\ codec_inode' = set_pid(codec_inode, value)
    /\ CodecFrame

\* inode.set_mid(value)
SetMid(value) ==
    /\ codec_inode' = set_mid(codec_inode, value)
    /\ CodecFrame

\* The setters of an INode applied, in any order, to 32-bit values.
CodecNext ==
    \/ \E value \in U32Inputs : SetPid(value)
    \/ \E value \in U32Inputs : SetMid(value)

CodecSpec == Init /\ [][CodecNext]_vars

\* ================================================================= claims

\* The step just taken is a call of the handler op: handlers start from Idle
\* and leave their reply.
Called(op) == reply = Idle /\ reply'.op = op

\* The entry an inode number of FUSE resolves to in fs, if any.
Resolves(fs, ino) == U64Sub1(ino) \in DOMAIN fs
EntryOf(fs, ino) == fs[U64Sub1(ino)]

NotFound(op) == ReplyError(op, ENOENT)

\* ---------------------------------------------------------------------- C1
\* C1: a build over a listing of N processes with pairwise different pids and
\* M process-scope modules returns a mapping of exactly 1 + N + N*M entries,
\* no two of which share an identifier.
C1_EntryCount ==
    (conn_id \in DOMAIN connections /\ process_info_list.ok) =>
        LET fs == create_root_folder(connections, process_info_list, modules_processes)
            N == Len(process_info_list.list)
            M == Len(modules_processes)
        IN  /\ Cardinality(DOMAIN fs) = 1 + N + N * M
            /\ \A k1, k2 \in DOMAIN fs : k1 # k2 => fs[k1].inode # fs[k2].inode

\* ---------------------------------------------------------------------- C2
\* C2: the snapshot is a tree rooted at identifier 0: every child identifier
\* resolves, every entry but the root is in exactly one child list exactly
\* once, the root is in none, and following child lists never comes back to
\* an entry already visited.
Folders(fs) == {k \in DOMAIN fs : fs[k].kind = "Folder"}

\* How many times k occurs in the child lists of fs.
Occurrences(fs, k) ==
    Cardinality({<<f, i>> \in Folders(fs) \X (1..Cardinality(DOMAIN fs)) :
                    i <= Len(fs[f].children) /\ fs[f].children[i] = k})

ChildrenOf(fs, k) ==
    IF fs[k].kind = "Folder"
    THEN {fs[k].children[i] : i \in 1..Len(fs[k].children)} \cap DOMAIN fs
    ELSE {}

RECURSIVE Below(_, _, _)
\* The entries reached from those of S by following child lists n times at most.
Below(fs, S, n) ==
    IF n = 0 THEN S
    ELSE Below(fs, S \cup UNION {ChildrenOf(fs, k) : k \in S}, n - 1)

OnCycle(fs, k) == k \in Below(fs, ChildrenOf(fs, k), Cardinality(DOMAIN fs))

C2_Tree ==
    /\ U64Zero \in DOMAIN file_system
    /\ \A f \in Folders(file_system) : \A i \in 1..Len(file_system[f].children) :
          file_system[f].children[i] \in DOMAIN file_system
    /\ \A k \in DOMAIN file_system :
          Occurrences(file_system, k) = (IF k = U64Zero THEN 0 ELSE 1)
    /\ \A k \in DOMAIN file_system : ~OnCycle(file_system, k)

\* ---------------------------------------------------------------------- C3
\* C3: a read of a file at an offset beyond the length of its payload is
\* answered with an empty byte sequence; it never faults.
C3_ReadPastEnd ==
    [][Called("read") =>
          \A ino \in InodeInputs, offset \in ReadOffsets, size \in SizeInputs :
             ( /\ Read(ino, offset, size)
               /\ Resolves(file_system, ino)
               /\ EntryOf(file_system, ino).kind = "File"
               /\ offset > payload_len )
             => reply' = ReplyData("read", <<>>)]_vars

\* ---------------------------------------------------------------------- C4
\* C4: lookup answers with the attributes of the first child, in child-list
\* order, of the folder at parent - 1 whose name is the name looked up, and
\* with ENOENT when parent - 1 is not in the mapping, is a file, or is a folder
\* without a child of that name.
NamedChildren(fs, folder, name) ==
    {i \in 1..Len(folder.children) :
        folder.children[i] \in DOMAIN fs /\ fs[folder.children[i]].name = name}

C4_Lookup ==
    [][Called("lookup") =>
          \A parent \in InodeInputs, name \in NameInputs :
             Lookup(parent, name) =>
                IF \/ ~Resolves(file_system', parent)
                   \/ EntryOf(file_system', parent).kind = "File"
                   \/ NamedChildren(file_system', EntryOf(file_system', parent),
                                    to_string_lossy(name)) = {}
                THEN reply' = NotFound("lookup")
                ELSE LET folder == EntryOf(file_system', parent)
                         first == Min(NamedChildren(file_system', folder,
                                                    to_string_lossy(name)))
                     IN  /\ reply'.kind = "entry"
                         /\ reply'.attr.ino = U64Add1(folder.children[first])]_vars

\* ---------------------------------------------------------------------- C5
\* C5: getattr reports a folder as a directory with link count 2, size 0 and
\* permissions 0755, and a file as a regular file with permissions 0644 and
\* the size its content-length provider returns at the time of the call; uid
\* and gid are those fixed at the mount.
C5_Getattr ==
    [][Called("getattr") =>
          \A ino \in InodeInputs :
             (Getattr(ino) /\ Resolves(file_system', ino)) =>
                LET entry == EntryOf(file_system', ino)
                    attr == reply'.attr
                IN  /\ reply'.kind = "attr"
                    /\ attr.uid = uid /\ attr.gid = gid
                    /\ entry.kind = "Folder" =>
                          /\ attr.kind = "Directory" /\ attr.nlink = 2
                          /\ attr.size = 0 /\ attr.perm = Octal(7, 5, 5)
                    /\ entry.kind = "File" =>
                          /\ attr.kind = "RegularFile" /\ attr.perm = Octal(6, 4, 4)
                          /\ attr.size = content_length(entry)]_vars

\* ---------------------------------------------------------------------- C6
\* C6: a lookup, getattr or readdir call rebuilds the snapshot, from the
\* processes listed then, and sets last_refresh to the time of the call if and
\* only if strictly more than 10 seconds have passed since last_refresh;
\* otherwise it leaves the mapping and last_refresh as they are.
Refreshing == {"lookup", "getattr", "readdir"}

C6_RefreshPolicy ==
    [][(reply = Idle /\ reply'.op \in Refreshing) =>
          IF now - last_refresh > RefreshSecs
          THEN /\ last_refresh' = now
               /\ file_system' = create_root_folder(connections, process_info_list,
                                                    modules_processes)
          ELSE UNCHANGED <<file_system, last_refresh>>]_vars

\* A call was answered inside the TTL window that a rebuild opened.
C6_Witness ==
    /\ reply.op \in Refreshing
    /\ last_refresh > 0
    /\ now > last_refresh

\* ---------------------------------------------------------------------- C7
\* C7: a read leaves the mapping and last_refresh as they are, however long
\* ago the last refresh was; lookup, getattr and readdir refresh first, so a
\* stale snapshot is rebuilt at the call and every inode number in their reply
\* resolves in the mapping as the call leaves it.
ReplyInodes(r) ==
    IF r.kind \in {"entry", "attr"} THEN {r.attr.ino}
    ELSE IF r.kind = "directory" THEN {r.entries[k].ino : k \in 1..Len(r.entries)}
    ELSE {}

C7_OnlyReadSkipsRefresh ==
    [][/\ Called("read") => UNCHANGED <<file_system, last_refresh>>
       /\ (reply = Idle /\ reply'.op \in Refreshing) =>
             /\ now - last_refresh > RefreshSecs => last_refresh' = now
             /\ \A ino \in ReplyInodes(reply') : Resolves(file_system', ino)]_vars

\* A read was served from a snapshot older than 10 seconds.
C7_Witness ==
    /\ reply.op = "read"
    /\ reply.kind = "data"
    /\ now - last_refresh > RefreshSecs

\* ---------------------------------------------------------------------- C8
\* C8: when a rebuild is made from a listing without the process of a process
\* folder or module entry of the snapshot, the identifier is not in the
\* mapping afterwards, and a lookup, getattr, read or readdir with an
\* identifier that is not in the mapping is answered ENOENT.
ListedPids ==
    IF conn_id \in DOMAIN connections /\ process_info_list.ok
    THEN {pid(I32AsU64(process_info_list.list[i].pid)) :
             i \in 1..Len(process_info_list.list)}
    ELSE {}

CalledWith(op, ino) ==
    CASE op = "lookup" -> \E name \in NameInputs : Lookup(ino, name)
      [] op = "getattr" -> Getattr(ino)
      [] op = "read" -> \E offset \in ReadOffsets, size \in SizeInputs : Read(ino, offset, size)
      [] op = "readdir" -> \E offset \in ReaddirOffsets : Readdir(ino, offset)

C8_StaleIdentifiers ==
    [][/\ (reply = Idle /\ last_refresh' # last_refresh) =>
             \A k \in DOMAIN file_system :
                (k # U64Zero /\ pid(k) \notin ListedPids) => k \notin DOMAIN file_system'
       /\ \A op \in {"lookup", "getattr", "read", "readdir"} :
             (Called(op) /\ reply' # NotFound(op)) =>
                \A ino \in InodeInputs :
                   ~Resolves(file_system', ino) => ~CalledWith(op, ino)]_vars

\* After a rebuild, a call with the identifier of a process that is neither
\* listed nor in the snapshot was answered ENOENT.
C8_Witness ==
    /\ last_refresh > 0
    /\ last_refresh = now
    /\ reply.kind = "error"
    /\ \E ino \in InodeInputs :
          /\ ~Resolves(file_system, ino)
          /\ pid(U64Sub1(ino)) \notin ListedPids

\* ---------------------------------------------------------------------- C9
\* C9: readdir of a folder with K children, from a start offset >= 0, emits
\* the entries at the positions start offset .. K+1 of ('.', '..', the children
\* in child-list order), each with next-offset = its position + 1: K+2 entries
\* from 0, none from K+2, and resuming at the next-offset of the last entry
\* received neither repeats nor skips one.
C9_Readdir ==
    [][Called("readdir") =>
          \A ino \in InodeInputs, offset \in ReaddirOffsets :
             ( /\ offset >= 0
               /\ Resolves(file_system', ino)
               /\ EntryOf(file_system', ino).kind = "Folder"
               /\ Readdir(ino, offset) )
             => LET folder == EntryOf(file_system', ino)
                    K == Len(folder.children)
                    At(pos) == IF pos = 0 THEN <<".">>
                               ELSE IF pos = 1 THEN <<".", ".">>
                               ELSE file_system'[folder.children[pos - 1]].name
                    emitted == reply'.entries
                IN  /\ reply'.kind = "directory"
                    /\ Len(emitted) = (IF offset > K + 2 THEN 0 ELSE K + 2 - offset)
                    /\ \A k \in 1..Len(emitted) :
                          LET pos == offset + k - 1
                          IN  /\ emitted[k].offset = pos + 1
                              /\ emitted[k].name = At(pos)
                              /\ pos >= 2 =>
                                    emitted[k].ino = U64Add1(folder.children[pos - 1])]_vars

\* A listing resumed after '.' and '..' and emitted a child.
C9_Witness ==
    /\ reply.kind = "directory"
    /\ Len(reply.entries) >= 1
    /\ reply.entries[1].offset >= 3

\* --------------------------------------------------------------------- C10
\* C10: however the cleanup threads of one mount id interleave, the refcount
\* of the connection is decremented once in all, by the run that finds the
\* mount id registered, and is never below zero.
Decremented == (\E t \in Threads : cleanup[t] = "released") \/ id \notin file_systems

C10_CleanupOnce ==
    conn_id \in DOMAIN connections =>
        /\ connections[conn_id].refcount >= 0
        /\ connections[conn_id].refcount =
              (IF Decremented THEN MountedRefcount - 1 ELSE MountedRefcount)

\* Two cleanup threads have run to their end and the connection is still there.
C10_Witness ==
    /\ conn_id \in DOMAIN connections
    /\ Cardinality({t \in Threads : cleanup[t] = "done"}) >= 2

\* --------------------------------------------------------------------- C11
\* C11: a drop takes no daemon state lock and waits for nothing: it can be
\* taken whoever holds the lock and leaves the lock as it is; and under fair
\* scheduling every cleanup thread spawned runs to its end.
DropPending(t) == cleanup[t] = "none" /\ (t = 1 => fs_state # "dropped")

C11_DropNeverDeadlocks ==
    /\ [](\A t \in Threads : DropPending(t) => ENABLED Drop(t))
    /\ [][\A t \in Threads :
            (cleanup[t] = "none" /\ cleanup'[t] # "none") =>
               /\ cleanup'[t] = "spawned"
               /\ UNCHANGED <<lock, connections, file_systems>>]_vars
    /\ \A t \in Threads : (cleanup[t] = "spawned") ~> (cleanup[t] = "done")

\* The instance was dropped while the daemon held the state lock: its cleanup
\* thread waits, spawned, behind the lock.
C11_Witness ==
    /\ fs_state = "dropped"
    /\ cleanup[1] = "spawned"
    /\ lock = <<"daemon">>

\* --------------------------------------------------------------------- C12
\* C12: for 32-bit values p and s, the identifier with pid set to p and mid
\* set to s reads back pid = p and mid = s, and setting one field leaves the
\* other as it was.
C12_CodecRoundTrip ==
    [][/\ \A value \in U32Inputs :
             /\ SetPid(value) =>
                   pid(codec_inode') = value /\ mid(codec_inode') = mid(codec_inode)
             /\ SetMid(value) =>
                   mid(codec_inode') = value /\ pid(codec_inode') = pid(codec_inode)
       /\ \A p, s \in U32Inputs :
             LET encoded == set_mid(set_pid(U64Zero, p), s)
             IN  pid(encoded) = p /\ mid(encoded) = s]_vars

\* Both fields are set, the pid to a value with bit 31 set.
C12_Witness ==
    /\ pid(codec_inode) = <<1, Limb - 1, 0, 0>>
    /\ mid(codec_inode) = <<Limb - 1, Limb \div 2, 0, 0>>

\* --------------------------------------------------------------------- C13
\* C13: in a build, the i-th process listed has its folder under encode(pid, 0),
\* the i-th child of the root; the j-th module of M has its entry in the
\* mapping under encode(pid, j), the j-th child of that folder; and readdir of
\* the folder emits, after '.' and '..', the module entries with the inode
\* numbers encode(pid, j) + 1, in that order.
encode(p, j) == set_mid(set_pid(U64Zero, I32AsU64(p)), <<j, 0, 0, 0>>)

C13_Builder ==
    (conn_id \in DOMAIN connections /\ process_info_list.ok) =>
        LET fs == create_root_folder(connections, process_info_list, modules_processes)
            listing == process_info_list.list
            M == Len(modules_processes)
        IN  /\ Len(fs[U64Zero].children) = Len(listing)
            /\ \A i \in 1..Len(listing) :
                  LET p == listing[i].pid
                      folder == fs[encode(p, 0)]
                      emitted == readdir_reply(fs, U64Add1(encode(p, 0)), 0)
                  IN  /\ fs[U64Zero].children[i] = encode(p, 0)
                      /\ folder.kind = "Folder"
                      /\ folder.inode = encode(p, 0)
                      /\ folder.children = [j \in 1..M |-> encode(p, j)]
                      /\ \A j \in 1..M :
                            /\ encode(p, j) \in DOMAIN fs
                            /\ fs[encode(p, j)] =
                                  module_entry(modules_processes[j], encode(p, j),
                                               [conn_id |-> conn_id, pid |-> p])
                      /\ emitted.kind = "directory"
                      /\ Len(emitted.entries) = M + 2
                      /\ \A j \in 1..M :
                            emitted.entries[j + 2].ino = U64Add1(encode(p, j))

\* --------------------------------------------------------------------- C14
\* C14: a build made while the connection is not registered, or while the
\* listing of the processes fails, still returns a mapping: the root alone,
\* under identifier 0, named after the connection, with no children; the
\* handler that made the build does not fault.
RootOnly == [k \in {U64Zero} |-> VirtualFolder(U64Zero, conn_id)]

BuildDegrades == conn_id \notin DOMAIN connections \/ ~process_info_list.ok

C14_BuildNeverFails ==
    /\ [](BuildDegrades =>
             create_root_folder(connections, process_info_list, modules_processes)
                = RootOnly)
    /\ [][(reply = Idle /\ last_refresh' # last_refresh /\ BuildDegrades) =>
             /\ file_system' = RootOnly
             /\ reply'.kind # "panic"]_vars

\* A handler has just rebuilt the snapshot of a connection that is gone: the
\* processes are listed, and the snapshot holds the root alone.
C14_Witness ==
    /\ reply.op \in Refreshing
    /\ last_refresh = now /\ now > 0
    /\ conn_id \notin DOMAIN connections
    /\ process_info_list.ok /\ Len(process_info_list.list) > 0
    /\ file_system = RootOnly

\* --------------------------------------------------------------------- C15
\* C15: when the entry of a module fails during a build, the build goes on:
\* the handler that rebuilds does not fault, and for every process listed the
\* mapping afterwards holds an entry under encode(pid, j) for exactly the
\* modules j of the registry that did not fail.
C15_FailingModuleSkipped ==
    [][( /\ reply = Idle
         /\ reply'.op \in Refreshing
         /\ Stale(now - last_refresh)
         /\ conn_id \in DOMAIN connections
         /\ process_info_list.ok )
       => /\ reply'.kind # "panic"
          /\ \A i \in 1..Len(process_info_list.list), j \in 1..Len(modules_processes) :
                LET p == process_info_list.list[i].pid
                IN  encode(p, j) \in DOMAIN file_system'
                       <=> ~entry_panics(modules_processes[j],
                                         [conn_id |-> conn_id, pid |-> p])]_vars

\* --------------------------------------------------------------------- C16
\* C16: no handler takes the daemon state lock while it has exclusive access
\* to the snapshot, that is, at any point of a lookup, getattr, read or
\* readdir call.
C16_NoStateLockUnderSnapshot ==
    [][\A op \in {"lookup", "getattr", "read", "readdir"} :
          Called(op) => ~TakesStateLock(op)]_vars

\* --------------------------------------------------------------------- C17
\* C17: whatever the order of the calls, the mapping a call works on is the
\* whole result of one build: the mapping is at all times what one build
\* returns, it changes only in a rebuild, in one step with last_refresh, to
\* what the build of that call returns, and the reply of every call is
\* computed from the mapping that call leaves.
ConnStates ==
    {[c \in S |-> [refcount |-> MountedRefcount]] : S \in SUBSET {conn_id, OtherConn}}

Builds == {create_root_folder(c, l, modules_processes) : c \in ConnStates, l \in Listings}

RepliesFrom(fs, op) ==
    CASE op = "lookup" ->
            {lookup_reply(fs, parent, name) : parent \in InodeInputs, name \in NameInputs}
      [] op = "getattr" -> {getattr_reply(fs, ino) : ino \in InodeInputs}
      [] op = "read" ->
            {read_reply(fs, ino, offset, 1) : ino \in InodeInputs, offset \in ReadOffsets}
      [] op = "readdir" ->
            {readdir_reply(fs, ino, offset) : ino \in InodeInputs, offset \in ReaddirOffsets}

C17_AtomicSnapshot ==
    /\ [](file_system \in Builds)
    /\ [][/\ (file_system' # file_system \/ last_refresh' # last_refresh) =>
               /\ reply = Idle /\ reply'.op \in Refreshing
               /\ last_refresh' = now
               /\ file_system' = create_root_folder(connections, process_info_list,
                                                    modules_processes)
           /\ \A op \in {"lookup", "getattr", "read", "readdir"} :
                 Called(op) => reply' \in RepliesFrom(file_system', op)]_vars

\* A call has just replaced the snapshot by a build that holds processes and
\* was answered from it.
C17_Witness ==
    /\ reply.op \in Refreshing
    /\ reply.kind \in {"entry", "attr", "directory"}
    /\ last_refresh = now /\ now > RefreshSecs
    /\ Cardinality(DOMAIN file_system) > 2

\* --------------------------------------------------------------------- C18
\* C18: a cleanup run that finds the mount id registered lowers the refcount
\* of the connection by one, if the connection is there, and by nothing if it
\* is gone, then removes the mount id: once a run is over the mount id is not
\* registered.  No step of a run touches the other connection or the other
\* mount, and while a run holds the lock nobody else changes the registries.
C18_CleanupPostcondition ==
    /\ []((\E t \in Threads : cleanup[t] \in {"exit", "done"}) => id \notin file_systems)
    /\ [](OtherMount \in file_systems)
    /\ [][\A t \in Threads :
            /\ cleanup'[t] # cleanup[t] =>
                  /\ file_systems' \ {id} = file_systems \ {id}
                  /\ cleanup[t] = "released" => id \notin file_systems'
                  /\ cleanup[t] # "released" => file_systems' = file_systems
                  /\ DOMAIN connections' = DOMAIN connections
                  /\ \A c \in DOMAIN connections :
                        connections'[c].refcount =
                           (IF c = conn_id /\ cleanup[t] = "found"
                            THEN connections[c].refcount - 1
                            ELSE connections[c].refcount)
            /\ (lock = <<"cleanup", t>> /\ cleanup'[t] = cleanup[t]) =>
                  UNCHANGED <<connections, file_systems>>]_vars

\* A run found the mount id registered and the connection gone: it is past
\* the decrement, about to remove the mount id.
C18_Witness ==
    \E t \in Threads :
       /\ cleanup[t] = "released"
       /\ conn_id \notin DOMAIN connections
       /\ OtherConn \in DOMAIN connections

\* --------------------------------------------------------------------- C19
\* C19: a read of a file at an offset within its payload, with a size, is
\* answered with the bytes of the payload from the offset to offset + size or
\* to the end of the payload, whichever comes first: never more than size.
C19_ReadAtMostSize ==
    [][Called("read") =>
          \A ino \in InodeInputs, offset \in ReadOffsets, size \in SizeInputs :
             ( /\ Read(ino, offset, size)
               /\ Resolves(file_system, ino)
               /\ EntryOf(file_system, ino).kind = "File"
               /\ 0 <= offset /\ offset <= payload_len )
             => LET payload == contents(EntryOf(file_system, ino))
                    end == Min({offset + size, Len(payload)})
                IN  /\ reply' = ReplyData("read", SubSeq(payload, offset + 1, end))
                    /\ Len(reply'.data) <= size]_vars

\* --------------------------------------------------------------------- C20
\* C20: an inode number emitted by lookup or readdir, given to getattr in the
\* same snapshot, resolves to the entry it was emitted for: that of a child is
\* the identifier of the child + 1 and getattr reports the kind emitted, and
\* the '.' of readdir on a folder is the inode number of that folder itself.
EmittedFor(fs, ino, kind, name) ==
    /\ Resolves(fs, ino)
    /\ EntryOf(fs, ino).name = name
    /\ getattr_reply(fs, ino).kind = "attr"
    /\ getattr_reply(fs, ino).attr.ino = ino
    /\ getattr_reply(fs, ino).attr.kind = kind

C20_EmittedIdentifiersResolve ==
    [][/\ Called("lookup") =>
             \A parent \in InodeInputs, name \in NameInputs :
                (Lookup(parent, name) /\ reply'.kind = "entry") =>
                   EmittedFor(file_system', reply'.attr.ino, reply'.attr.kind,
                              to_string_lossy(name))
       /\ Called("readdir") =>
             \A ino \in InodeInputs, offset \in ReaddirOffsets :
                (Readdir(ino, offset) /\ reply'.kind = "directory") =>
                   \A k \in 1..Len(reply'.entries) :
                      LET e == reply'.entries[k]
                      IN  /\ Resolves(file_system', e.ino)
                          /\ e.name = <<".">> => e.ino = ino
                          /\ e.name \notin {<<".">>, <<".", ".">>} =>
                                EmittedFor(file_system', e.ino, e.kind, e.name)]_vars

====
